---- MODULE Spec2Model ----
(***************************************************************************)
(* A model of the Hansard bot's query pipeline (src/main.py):              *)
(* extract_keywords, split_sentences, the per-record window scoring, the   *)
(* speaker aggregation loop, the tier decision and ranking, and the        *)
(* exception boundary of search_theyworkforyou.                            *)
(*                                                                         *)
(* Text is a sequence of one-character strings, so that lower(), split(),  *)
(* strip(), join and the substring test are computed as Python computes    *)
(* them.                                                                   *)
(***************************************************************************)
EXTENDS Integers, Sequences, FiniteSets, TLC

VARIABLES
    pc,                  \* position inside the operation being run
    TWFY_API_KEY,        \* the configured search credential, or None
    raw_query,           \* argument of search_theyworkforyou / extract_keywords
    base_keywords,       \* result of extract_keywords(raw_query)
    web_context_msg,     \* first component returned by get_debate_context
    extra_context_title, \* second component returned by get_debate_context
    rows_left,           \* rows of data["rows"] the loop has still to visit
    item,                \* the row the loop (or the scorer) looks at
    found_strict,        \* loop local: some window held every term
    best_snippet,        \* loop local: the window kept for a Strict record
    strict_counts,       \* dict speaker -> count, in insertion order
    loose_counts,        \* dict speaker -> count, in insertion order
    debate_info,         \* dict speaker -> payload, in insertion order
    sorted_speakers,     \* the ranked (speaker, count) pairs
    result_type,         \* "Strict" or "Loose" once decided
    ai_summary,          \* result of generate_ai_summary
    result,              \* the value returned to the caller, or None
    raised,              \* TRUE when an exception left search_theyworkforyou
    netcalls,            \* outbound network calls made so far, in order
    processed,           \* history: the rows visited so far, with their outcome
    failures             \* history: which collaborators or steps failed

vars == <<pc, TWFY_API_KEY, raw_query, base_keywords, web_context_msg,
          extra_context_title, rows_left, item, found_strict, best_snippet,
          strict_counts, loose_counts, debate_info, sorted_speakers,
          result_type, ai_summary, result, raised, netcalls, processed,
          failures>>

None == "None"

(***************************************************************************)
(* Bounds of the model.                                                    *)
(***************************************************************************)
MaxQueryLen == 4      \* characters of a raw query given to extract_keywords
MaxPieces == 4        \* sentence pieces of a body given to the scorer
MaxRows == 3          \* rows of an API response in the query pipeline
MaxRankRows == 7      \* rows of an API response in the ranking runs

(***************************************************************************)
(* Python string primitives on character sequences.                        *)
(***************************************************************************)
UpperChars == <<"A", "B", "C", "D", "E", "F", "G", "H", "I", "J", "K", "L", "M",
                "N", "O", "P", "Q", "R", "S", "T", "U", "V", "W", "X", "Y", "Z">>
LowerChars == <<"a", "b", "c", "d", "e", "f", "g", "h", "i", "j", "k", "l", "m",
                "n", "o", "p", "q", "r", "s", "t", "u", "v", "w", "x", "y", "z">>

LowerChar(c) ==
    IF \E k \in 1..Len(UpperChars) : UpperChars[k] = c
    THEN LowerChars[CHOOSE k \in 1..Len(UpperChars) : UpperChars[k] = c]
    ELSE c

\* str.lower()
Lower(s) == [k \in 1..Len(s) |-> LowerChar(s[k])]

IsSpace(c) == c \in {" ", "\t", "\n"}

RECURSIVE SplitAt(_, _, _, _)
SplitAt(s, k, cur, acc) ==
    IF k > Len(s)
    THEN IF cur = <<>> THEN acc ELSE Append(acc, cur)
    ELSE IF IsSpace(s[k])
         THEN SplitAt(s, k + 1, <<>>, IF cur = <<>> THEN acc ELSE Append(acc, cur))
         ELSE SplitAt(s, k + 1, Append(cur, s[k]), acc)

\* str.split() with no argument: runs of whitespace separate, no empty pieces
Split(s) == SplitAt(s, 1, <<>>, <<>>)

RECURSIVE LStrip(_, _)
LStrip(s, chars) ==
    IF s # <<>> /\ Head(s) \in chars THEN LStrip(Tail(s), chars) ELSE s

RECURSIVE RStrip(_, _)
RStrip(s, chars) ==
    IF s # <<>> /\ s[Len(s)] \in chars
    THEN RStrip(SubSeq(s, 1, Len(s) - 1), chars)
    ELSE s

\* str.strip(chars)
Strip(s, chars) == RStrip(LStrip(s, chars), chars)

\* str.strip() with no argument
StripWs(s) == Strip(s, {" ", "\t", "\n"})

RECURSIVE Join(_, _)
\* sep.join(parts)
Join(parts, sep) ==
    IF parts = <<>> THEN <<>>
    ELSE IF Len(parts) = 1 THEN parts[1]
    ELSE parts[1] \o sep \o Join(Tail(parts), sep)

\* "term in context" on strings: the substring test
Contains(term, context) ==
    \E k \in 0..(Len(context) - Len(term)) :
        SubSeq(context, k + 1, k + Len(term)) = term

\* s[:n]
Prefix(s, n) == SubSeq(s, 1, IF Len(s) < n THEN Len(s) ELSE n)

Ellipsis == <<".", ".", ".">>
Space == <<" ">>

(***************************************************************************)
(* extract_keywords                                                        *)
(***************************************************************************)
stop_words ==
    { <<"w", "h", "o">>, <<"s", "p", "o", "k", "e">>, <<"a", "b", "o", "u", "t">>,
      <<"t", "h", "e">>, <<"m", "o", "s", "t">>, <<"i", "n">>,
      <<"c", "o", "n", "t", "e", "x", "t">>, <<"o", "f">>,
      <<"w", "h", "a", "t">>, <<"d", "i", "d">>, <<"s", "a", "y">>,
      <<"r", "e", "g", "a", "r", "d", "i", "n", "g">>,
      <<"c", "o", "n", "c", "e", "r", "n", "i", "n", "g">>, <<"a">>, <<"a", "n">>,
      <<"a", "n", "d">>, <<"t", "o">>, <<"f", "o", "r">>, <<"w", "i", "t", "h">>,
      <<"b", "y">>, <<"o", "n">>, <<"i", "s">>, <<"a", "r", "e">>,
      <<"w", "a", "s">>, <<"w", "e", "r", "e">> }

StripSet == {"?", ",", ".", "!"}

\* the test of the list comprehension on line 49
KeepWord(w) == Lower(Strip(w, StripSet)) \notin stop_words

extract_keywords(text) ==
    LET words == Split(Lower(text))
        keywords == SelectSeq(words, KeepWord)
    IN  IF keywords = <<>> THEN text ELSE Join(keywords, Space)

(***************************************************************************)
(* split_sentences: re.split(r'(?<=[.!?])\s+', text)                       *)
(***************************************************************************)
Terminators == {".", "!", "?"}

RECURSIVE SkipSpaces(_, _)
\* the first index at or after k that holds no whitespace (Len(s) + 1 if none)
SkipSpaces(s, k) ==
    IF k <= Len(s) /\ IsSpace(s[k]) THEN SkipSpaces(s, k + 1) ELSE k

RECURSIVE SentencesAt(_, _, _, _)
SentencesAt(s, k, cur, acc) ==
    IF k > Len(s)
    THEN Append(acc, cur)
    ELSE IF IsSpace(s[k]) /\ k > 1 /\ s[k - 1] \in Terminators
         THEN SentencesAt(s, SkipSpaces(s, k), <<>>, Append(acc, cur))
         ELSE SentencesAt(s, k + 1, Append(cur, s[k]), acc)

split_sentences(text) == SentencesAt(text, 1, <<>>, <<>>)

(***************************************************************************)
(* The scoring of one record (lines 164-192).                              *)
(***************************************************************************)
WindowSize == 3

\* base_keywords.lower().split()
user_terms(kw) == Split(Lower(kw))

\* the closure score_window, with the variables it captures as parameters
score_window(text_window, debate_title, extra_title, kw) ==
    LET context == Lower(debate_title \o Space \o text_window \o Space \o extra_title)
        terms == user_terms(kw)
    IN  Cardinality({k \in 1..Len(terms) : Contains(terms[k], context)})

\* " ".join(sentences[i:i+3]), i counted from 0 as in the source
Window(sentences, i) == Join(SubSeq(sentences, i + 1, i + WindowSize), Space)

RECURSIVE ScanWindowsLast(_, _, _, _, _)
\* the loop without its break: the last window holding every term wins
ScanWindowsLast(sentences, i, debate_title, extra_title, kw) ==
    IF i >= Len(sentences) - (WindowSize - 1)
    THEN [found_strict |-> FALSE, best_snippet |-> <<>>]
    ELSE LET later == ScanWindowsLast(sentences, i + 1, debate_title, extra_title, kw)
         IN  IF later.found_strict THEN later
             ELSE IF score_window(Window(sentences, i), debate_title, extra_title, kw)
                         = Len(user_terms(kw))
                  THEN [found_strict |-> TRUE,
                        best_snippet |-> Window(sentences, i) \o Ellipsis]
                  ELSE later

RECURSIVE ScanWindows(_, _, _, _, _)
\* the for loop of lines 184-192: the first window holding every term wins
ScanWindows(sentences, i, debate_title, extra_title, kw) ==
    IF i >= Len(sentences) - (WindowSize - 1)
    THEN [found_strict |-> FALSE, best_snippet |-> <<>>]
    ELSE IF score_window(Window(sentences, i), debate_title, extra_title, kw)
                = Len(user_terms(kw))
         THEN [found_strict |-> TRUE, best_snippet |-> Window(sentences, i) \o Ellipsis]
         ELSE ScanWindows(sentences, i + 1, debate_title, extra_title, kw)

\* lines 164-192 for one record: found_strict and best_snippet
ScoreRecord(body_text, debate_title, extra_title, kw) ==
    LET sentences == split_sentences(body_text)
    IN  IF Len(sentences) <= WindowSize
        THEN IF score_window(body_text, debate_title, extra_title, kw)
                    = Len(user_terms(kw))
             THEN [found_strict |-> TRUE, best_snippet |-> body_text]
             ELSE [found_strict |-> FALSE, best_snippet |-> <<>>]
        ELSE ScanWindows(sentences, 0, debate_title, extra_title, kw)

(***************************************************************************)
(* Python dicts keep insertion order: a dict is a sequence of entries      *)
(* [k, v], a key held at most once.                                        *)
(***************************************************************************)
Has(d, key) == \E j \in 1..Len(d) : d[j].k = key

Get(d, key) == d[CHOOSE j \in 1..Len(d) : d[j].k = key].v

\* d[key] = val: an existing key keeps its place, a new key goes last
Put(d, key, val) ==
    IF Has(d, key)
    THEN [j \in 1..Len(d) |-> IF d[j].k = key THEN [k |-> key, v |-> val] ELSE d[j]]
    ELSE Append(d, [k |-> key, v |-> val])

\* the position of a key in the insertion order
Pos(d, key) == CHOOSE j \in 1..Len(d) : d[j].k = key

\* lines 195-196 and 213-214
Increment(counts, name) ==
    IF Has(counts, name) THEN Put(counts, name, Get(counts, name) + 1)
    ELSE Put(counts, name, 1)

(***************************************************************************)
(* One row of the response (lines 144-162).  A JSON value that is not an   *)
(* object is kind "null"; speaker_tag says whether the key "speaker" is    *)
(* absent, holds a string or holds an object; party_tag "null" is a JSON   *)
(* null party.                                                             *)
(***************************************************************************)
UnknownMP == <<"U", "n", "k", "n", "o", "w", "n", " ", "M", "P">>
UnknownParty == <<"U", "n", "k", "n", "o", "w", "n", " ", "P", "a", "r", "t", "y">>
TwfyHost == "https://www.theyworkforyou.com"

\* lines 145-154
SpeakerName(it) ==
    IF it.speaker_tag = "dict"
    THEN StripWs(it.first_name \o Space \o it.last_name)
    ELSE UnknownMP

\* line 156 without its test for the placeholder name
SkippedEmptyOnly(it) == SpeakerName(it) = <<>>

\* line 156
Skipped(it) == SpeakerName(it) = <<>> \/ SpeakerName(it) = UnknownMP

\* lines 160-162
DebateTitle(it) == IF it.parent_tag = "dict" THEN it.parent_body ELSE <<>>

\* line 149: '"speaker" in item' raises TypeError on a value that is no container
RowRaises(it) == it.kind = "null"

SnippetPrefixLen == 200

\* lines 199-207 and 217-225
Payload(it, type, snippet) ==
    [link |-> <<TwfyHost, it.listurl>>,
     snippet |-> snippet,
     title |-> DebateTitle(it),
     type |-> type,
     party_tag |-> IF it.speaker_tag = "dict" THEN it.party_tag ELSE "str",
     party |-> IF it.speaker_tag = "dict" THEN it.party ELSE UnknownParty]

\* line 198 without its condition: every Strict record stores its payload
StrictReplacesAlways(info, name) == TRUE

\* line 198: when a Strict record replaces the stored payload
StrictReplaces(info, name) == ~Has(info, name) \/ Get(info, name).type = "Loose"

\* line 216: when a Loose record stores its payload
LooseStores(info, name) == ~Has(info, name)

\* line 180 / 187 feed line 194: the tier of a record
IsStrict(it, extra_title, kw) ==
    ScoreRecord(it.body, DebateTitle(it), extra_title, kw).found_strict

\* lines 194-225 without the continue of line 208: a Strict record falls
\* through and is counted Loose as well
AggregateFallThrough(agg, it, extra_title, kw) ==
    LET name == SpeakerName(it)
        sc == ScoreRecord(it.body, DebateTitle(it), extra_title, kw)
        info == IF IsStrict(it, extra_title, kw)
                   /\ StrictReplaces(agg.debate_info, name)
                THEN Put(agg.debate_info, name, Payload(it, "Strict", sc.best_snippet))
                ELSE agg.debate_info
    IN  [strict_counts |-> IF IsStrict(it, extra_title, kw)
                           THEN Increment(agg.strict_counts, name)
                           ELSE agg.strict_counts,
         loose_counts |-> Increment(agg.loose_counts, name),
         debate_info |->
             IF LooseStores(info, name)
             THEN Put(info, name,
                      Payload(it, "Loose", Prefix(it.body, SnippetPrefixLen) \o Ellipsis))
             ELSE info]

\* lines 194-225 on the three dicts, for a row with a resolved name
Aggregate(agg, it, extra_title, kw) ==
    LET name == SpeakerName(it)
        sc == ScoreRecord(it.body, DebateTitle(it), extra_title, kw)
    IN  IF IsStrict(it, extra_title, kw)
        THEN [strict_counts |-> Increment(agg.strict_counts, name),
              loose_counts |-> agg.loose_counts,
              debate_info |->
                  IF StrictReplaces(agg.debate_info, name)
                  THEN Put(agg.debate_info, name,
                           Payload(it, "Strict", sc.best_snippet))
                  ELSE agg.debate_info]
        ELSE [strict_counts |-> agg.strict_counts,
              loose_counts |-> Increment(agg.loose_counts, name),
              debate_info |->
                  IF LooseStores(agg.debate_info, name)
                  THEN Put(agg.debate_info, name,
                           Payload(it, "Loose",
                                   Prefix(it.body, SnippetPrefixLen) \o Ellipsis))
                  ELSE agg.debate_info]

(***************************************************************************)
(* Ranking (lines 228-233): sorted(..., key=count, reverse=True)[:5].      *)
(* Python's sort is stable, also with reverse=True.                        *)
(***************************************************************************)
TopN == 5

RECURSIVE InsertDescUnstable(_, _)
\* a sort that is not stable: e goes in front of the entries of equal count
InsertDescUnstable(sorted, e) ==
    IF sorted = <<>> THEN <<e>>
    ELSE IF Head(sorted).v > e.v
         THEN <<Head(sorted)>> \o InsertDescUnstable(Tail(sorted), e)
         ELSE <<e>> \o sorted

RECURSIVE InsertDesc(_, _)
\* put e behind every entry whose count is at least e's
InsertDesc(sorted, e) ==
    IF sorted = <<>> THEN <<e>>
    ELSE IF Head(sorted).v >= e.v
         THEN <<Head(sorted)>> \o InsertDesc(Tail(sorted), e)
         ELSE <<e>> \o sorted

RECURSIVE SortDesc(_, _)
SortDesc(d, acc) ==
    IF d = <<>> THEN acc ELSE SortDesc(Tail(d), InsertDesc(acc, Head(d)))

Ranked(counts) == Prefix(SortDesc(counts, <<>>), TopN)

(***************************************************************************)
(* The collaborators and the messages search_theyworkforyou returns.       *)
(* A message is a record of what the rendered string holds.                *)
(***************************************************************************)
NoResult == [kind |-> "none"]
NoItem == [kind |-> "none"]

\* line 137
NoMentions(msg, kw) == [kind |-> "no_mentions", preamble |-> msg, query |-> kw]
\* line 235
NoMatches(msg, kw) == [kind |-> "no_matches", preamble |-> msg, query |-> kw]
\* line 293
ErrorMessage == [kind |-> "error"]

ContextTitle == <<"Y">>

\* get_debate_context: the search raises, finds nothing, or finds a title.
\* escapes says whether an exception leaves the function (lines 74-75: none does)
get_debate_context(outcome) ==
    IF outcome = "hit"
    THEN [msg |-> <<"Web Context: ">> \o ContextTitle, title |-> ContextTitle,
          escapes |-> FALSE]
    ELSE [msg |-> <<>>, title |-> <<>>, escapes |-> FALSE]

\* generate_ai_summary: the chat raises, answers nothing, or answers
generate_ai_summary(outcome) ==
    IF outcome = "answer"
    THEN [text |-> <<"MP Stance Analysis">>, escapes |-> FALSE]
    ELSE [text |-> <<>>, escapes |-> FALSE]

\* a handler that takes the errors of the request only
CaughtRequestErrors(exc) == exc \in {"ConnectionError", "JSONDecodeError"}

\* line 291: 'except Exception' takes every exception raised inside the try
Caught(exc) == TRUE

\* an exception raised inside the try block of lines 132-293
Throw(exc) ==
    /\ pc' = "done"
    /\ failures' = failures \cup {exc}
    /\ IF Caught(exc)
       THEN result' = ErrorMessage /\ raised' = raised
       ELSE result' = result /\ raised' = TRUE

\* the decision with its two tests in the other order
SelectTierLooseFirst(strict, loose) ==
    IF loose # <<>> THEN "Loose"
    ELSE IF strict # <<>> THEN "Strict"
    ELSE None

\* lines 228-235: which dict is shown
SelectTier(strict, loose) ==
    IF strict # <<>> THEN "Strict"
    ELSE IF loose # <<>> THEN "Loose"
    ELSE None

DisplayLen == 150

\* line 272
Truncate(snippet) ==
    IF Len(snippet) > DisplayLen THEN Prefix(snippet, DisplayLen) \o Ellipsis
    ELSE snippet

\* lines 264-287: one block per ranked speaker
Entry(info, e) ==
    [speaker |-> e.k, count |-> e.v,
     party |-> Get(info, e.k).party,
     title |-> Get(info, e.k).title,
     snippet |-> Truncate(Get(info, e.k).snippet),
     link |-> Get(info, e.k).link]

\* lines 248-289
RankedMessage(type, speakers, info, summary, msg, kw) ==
    [kind |-> "ranked",
     preamble |-> IF summary # <<>> THEN summary ELSE msg,
     query |-> kw,
     result_type |-> type,
     top_mp |-> speakers[1].k,
     top_count |-> speakers[1].v,
     entries |-> [j \in 1..Len(speakers) |-> Entry(info, speakers[j])]]

\* line 278: html.escape(party) raises AttributeError on a null party
FormatRaises(speakers, info) ==
    \E j \in 1..Len(speakers) : Get(info, speakers[j].k).party_tag = "null"

(***************************************************************************)
(* Inputs.                                                                 *)
(***************************************************************************)
SeqsUpTo(S, n) == UNION {[1..m -> S] : m \in 0..n}

Row(first, last, ptag, body, listurl) ==
    [kind |-> "row", speaker_tag |-> "dict", first_name |-> first,
     last_name |-> last, party_tag |-> ptag, party |-> <<"L", "a", "b">>,
     body |-> body, parent_tag |-> "absent", parent_body |-> <<>>,
     listurl |-> listurl]

BodyBoth == <<"x", " ", "y", ".">>
BodyHalf == <<"X", ".">>
BodyNone == <<"z", ".">>
BodyLong == <<"z", ".", " ", "z", ".", " ", "x", ".", " ", "y", ".">>

\* a JSON value that is no object, where a row was expected
NullRow(listurl) == [Row(<<>>, <<>>, "str", <<>>, listurl) EXCEPT !.kind = "null"]

\* rows whose speaker resolves to no name: no names, the placeholder, no
\* "speaker" key, a speaker that is a string
NamelessRows(listurl) ==
    {Row(<<>>, <<>>, "str", BodyBoth, listurl),
     Row(<<"U", "n", "k", "n", "o", "w", "n">>, <<"M", "P">>, "str", BodyBoth, listurl),
     [Row(<<>>, <<>>, "str", BodyBoth, listurl) EXCEPT !.speaker_tag = "absent"],
     [Row(<<>>, <<>>, "str", BodyBoth, listurl) EXCEPT !.speaker_tag = "string"]}

\* the rows a response may hold at position listurl, in the aggregation runs
AggItems(listurl) ==
    {Row(<<"A">>, <<>>, "str", b, listurl) : b \in {BodyBoth, BodyHalf, BodyNone}}
    \cup {Row(<<>>, <<"B">>, "str", b, listurl) : b \in {BodyLong, BodyNone}}
    \cup {[Row(<<"A">>, <<>>, "str", BodyHalf, listurl)
              EXCEPT !.parent_tag = "dict", !.parent_body = <<"Y">>],
          NullRow(listurl)}
    \cup NamelessRows(listurl)

\* the rows a response may hold at position listurl, in the pipeline runs
Items(listurl) ==
    {Row(<<"A">>, <<>>, "str", BodyBoth, listurl),
     Row(<<>>, <<"B">>, "str", BodyNone, listurl),
     Row(<<"A">>, <<>>, "null", BodyHalf, listurl),
     [Row(<<>>, <<>>, "str", BodyBoth, listurl) EXCEPT !.speaker_tag = "absent"],
     NullRow(listurl)}

Queries == {<<>>, <<"t", "h", "e", " ", "x", " ", "y">>}

(***************************************************************************)
(* search_theyworkforyou, step by step.                                    *)
(***************************************************************************)
Blank ==
    /\ base_keywords = <<>>
    /\ web_context_msg = <<>>
    /\ extra_context_title = <<>>
    /\ rows_left = 0
    /\ item = NoItem
    /\ found_strict = FALSE
    /\ best_snippet = <<>>
    /\ strict_counts = <<>>
    /\ loose_counts = <<>>
    /\ debate_info = <<>>
    /\ sorted_speakers = <<>>
    /\ result_type = None
    /\ ai_summary = <<>>
    /\ result = NoResult
    /\ raised = FALSE
    /\ netcalls = <<>>
    /\ processed = <<>>
    /\ failures = {}

Init ==
    /\ pc = "start"
    /\ TWFY_API_KEY \in {"key", None}
    /\ raw_query \in Queries
    /\ Blank

\* line 113
ExtractKeywords ==
    /\ pc = "start"
    /\ base_keywords' = extract_keywords(raw_query)
    /\ pc' = "context"
    /\ UNCHANGED <<TWFY_API_KEY, raw_query, web_context_msg, extra_context_title,
                   rows_left, item, found_strict, best_snippet, strict_counts,
                   loose_counts, debate_info, sorted_speakers, result_type,
                   ai_summary, result, raised, netcalls, processed, failures>>

\* line 116
GetDebateContext ==
    /\ pc = "context"
    /\ \E outcome \in {"raise", "nothing", "hit"} :
        LET r == get_debate_context(outcome)
        IN  /\ netcalls' = Append(netcalls, "ddg.text")
            /\ web_context_msg' = r.msg
            /\ extra_context_title' = r.title
            /\ IF r.escapes
               THEN /\ raised' = TRUE
                    /\ pc' = "done"
                    /\ failures' = failures \cup {"ddg.text"}
               ELSE /\ raised' = raised
                    /\ pc' = "request"
                    /\ failures' = IF outcome = "raise"
                                   THEN failures \cup {"ddg.text"} ELSE failures
    /\ UNCHANGED <<TWFY_API_KEY, raw_query, base_keywords, rows_left, item,
                   found_strict, best_snippet, strict_counts, loose_counts,
                   debate_info, sorted_speakers, result_type, ai_summary, result,
                   processed>>

\* lines 132-137: the request, the decoding and the test for rows
Request ==
    /\ pc = "request"
    /\ netcalls' = Append(netcalls, "requests.get")
    /\ \/ \E exc \in {"ConnectionError", "JSONDecodeError", "TypeError"} :
            Throw(exc) /\ UNCHANGED rows_left
       \/ \E n \in 0..MaxRows, has_rows \in BOOLEAN :
            /\ has_rows \/ n = 0
            /\ IF n = 0
               THEN /\ result' = NoMentions(web_context_msg, base_keywords)
                    /\ pc' = "done"
               ELSE /\ result' = result
                    /\ pc' = "loop"
            /\ rows_left' = n
            /\ UNCHANGED <<raised, failures>>
    /\ UNCHANGED <<TWFY_API_KEY, raw_query, base_keywords, web_context_msg,
                   extra_context_title, item, found_strict, best_snippet,
                   strict_counts, loose_counts, debate_info, sorted_speakers,
                   result_type, ai_summary, processed>>

\* the tier the loop gives a row: which counter it touched
TierOf(it, extra_title, kw) ==
    IF RowRaises(it) THEN "Raised"
    ELSE IF Skipped(it) THEN "Skipped"
    ELSE IF IsStrict(it, extra_title, kw) THEN "Strict"
    ELSE "Loose"

\* what the history keeps of a visited row
Outcome(it) == [item |-> it, tier |-> TierOf(it, extra_context_title, base_keywords)]

\* lines 144-225: one iteration of the for loop, on row it
Visit(it) ==
    /\ item' = it
    /\ rows_left' = rows_left - 1
    /\ IF RowRaises(it)
       THEN /\ Throw("TypeError")
            /\ UNCHANGED <<found_strict, best_snippet, strict_counts, loose_counts,
                           debate_info>>
       ELSE IF Skipped(it)
       THEN UNCHANGED <<pc, result, raised, failures, found_strict, best_snippet,
                        strict_counts, loose_counts, debate_info>>
       ELSE LET agg == Aggregate([strict_counts |-> strict_counts,
                                  loose_counts |-> loose_counts,
                                  debate_info |-> debate_info],
                                 it, extra_context_title, base_keywords)
                sc == ScoreRecord(it.body, DebateTitle(it), extra_context_title,
                                  base_keywords)
            IN  /\ strict_counts' = agg.strict_counts
                /\ loose_counts' = agg.loose_counts
                /\ debate_info' = agg.debate_info
                /\ found_strict' = sc.found_strict
                /\ best_snippet' = sc.best_snippet
                /\ UNCHANGED <<pc, result, raised, failures>>
    /\ UNCHANGED <<TWFY_API_KEY, raw_query, base_keywords, web_context_msg,
                   extra_context_title, sorted_speakers, result_type, ai_summary,
                   netcalls>>

Loop ==
    /\ pc = "loop"
    /\ rows_left > 0
    /\ \E it \in Items(Len(processed) + 1) :
        /\ Visit(it)
        /\ processed' = Append(processed, Outcome(it))

\* lines 228-235
Decide ==
    /\ pc = "loop"
    /\ rows_left = 0
    /\ LET tier == SelectTier(strict_counts, loose_counts)
       IN  /\ result_type' = tier
           /\ IF tier = None
              THEN /\ result' = NoMatches(web_context_msg, base_keywords)
                   /\ pc' = "done"
                   /\ sorted_speakers' = sorted_speakers
              ELSE /\ result' = result
                   /\ pc' = "summary"
                   /\ sorted_speakers' =
                        Ranked(IF tier = "Strict" THEN strict_counts ELSE loose_counts)
    /\ UNCHANGED <<TWFY_API_KEY, raw_query, base_keywords, web_context_msg,
                   extra_context_title, rows_left, item, found_strict, best_snippet,
                   strict_counts, loose_counts, debate_info, ai_summary, raised,
                   netcalls, processed, failures>>

\* lines 239-246
GenerateAiSummary ==
    /\ pc = "summary"
    /\ netcalls' = Append(netcalls, "ddg.chat")
    /\ \E outcome \in {"raise", "nothing", "answer"} :
        LET r == generate_ai_summary(outcome)
        IN  IF r.escapes
            THEN Throw("ddg.chat") /\ ai_summary' = ai_summary
            ELSE /\ ai_summary' = r.text
                 /\ pc' = "format"
                 /\ failures' = IF outcome = "raise"
                                THEN failures \cup {"ddg.chat"} ELSE failures
                 /\ UNCHANGED <<result, raised>>
    /\ UNCHANGED <<TWFY_API_KEY, raw_query, base_keywords, web_context_msg,
                   extra_context_title, rows_left, item, found_strict, best_snippet,
                   strict_counts, loose_counts, debate_info, sorted_speakers,
                   result_type, processed>>

\* lines 248-289
BuildMessage ==
    /\ pc = "format"
    /\ IF FormatRaises(sorted_speakers, debate_info)
       THEN Throw("AttributeError")
       ELSE /\ result' = RankedMessage(result_type, sorted_speakers, debate_info,
                                       ai_summary, web_context_msg, base_keywords)
            /\ pc' = "done"
            /\ UNCHANGED <<raised, failures>>
    /\ UNCHANGED <<TWFY_API_KEY, raw_query, base_keywords, web_context_msg,
                   extra_context_title, rows_left, item, found_strict, best_snippet,
                   strict_counts, loose_counts, debate_info, sorted_speakers,
                   result_type, ai_summary, netcalls, processed>>

Next ==
    \/ ExtractKeywords
    \/ GetDebateContext
    \/ Request
    \/ Loop
    \/ Decide
    \/ GenerateAiSummary
    \/ BuildMessage

Spec == Init /\ [][Next]_vars

(***************************************************************************)
(* extract_keywords alone, on every short text over a small alphabet.      *)
(***************************************************************************)
KwAlphabet == {"a", "n", "A", "x", "?", " "}

InitKw ==
    /\ pc = "start"
    /\ TWFY_API_KEY = "key"
    /\ raw_query \in SeqsUpTo(KwAlphabet, MaxQueryLen)
    /\ Blank

SpecKw == InitKw /\ [][ExtractKeywords]_vars

(***************************************************************************)
(* The scoring of one row, on bodies built from sentence pieces.           *)
(***************************************************************************)
Pieces == {<<"X", ".">>, <<"y", "!">>, <<"z", "?">>, <<"z">>}

ScoreBodies ==
    {Join(ps, Space) \o trail : ps \in SeqsUpTo(Pieces, MaxPieces),
                                trail \in {<<>>, Space}}

ScoreItems ==
    {[Row(<<"A">>, <<>>, "str", b, 1)
         EXCEPT !.parent_tag = p, !.parent_body = IF p = "dict" THEN <<"Y">> ELSE <<>>] :
        b \in ScoreBodies, p \in {"absent", "dict"}}

ScoreQueries ==
    {<<>>, <<" ">>, <<"x">>, <<"t", "h", "e", " ", "x", " ", "y">>}

\* the state in which the loop of line 144 starts on a response of n rows
AtLoop(query, hit, n) ==
    /\ pc = "loop"
    /\ TWFY_API_KEY = "key"
    /\ raw_query = query
    /\ base_keywords = extract_keywords(query)
    /\ web_context_msg = get_debate_context(hit).msg
    /\ extra_context_title = get_debate_context(hit).title
    /\ rows_left = n
    /\ item = NoItem
    /\ found_strict = FALSE
    /\ best_snippet = <<>>
    /\ strict_counts = <<>>
    /\ loose_counts = <<>>
    /\ debate_info = <<>>
    /\ sorted_speakers = <<>>
    /\ result_type = None
    /\ ai_summary = <<>>
    /\ result = NoResult
    /\ raised = FALSE
    /\ netcalls = <<"ddg.text", "requests.get">>
    /\ processed = <<>>
    /\ failures = {}

InitScore ==
    \E q \in ScoreQueries, hit \in {"nothing", "hit"} : AtLoop(q, hit, 1)

ScoreLoop ==
    /\ pc = "loop"
    /\ rows_left > 0
    /\ \E it \in ScoreItems :
        /\ Visit(it)
        /\ processed' = Append(processed, Outcome(it))

SpecScore == InitScore /\ [][ScoreLoop]_vars

(***************************************************************************)
(* The ranking, on responses of MaxRankRows rows by up to as many          *)
(* speakers.  Speakers are numbered in the order of their first row, which *)
(* loses no response up to the choice of names.                            *)
(***************************************************************************)
Digits == <<"1", "2", "3", "4", "5", "6", "7", "8", "9">>

RankItems ==
    {Row(<<"S">>, <<Digits[n]>>, "str", b, 1) :
        n \in 1..(Len(debate_info) + 1), b \in {BodyBoth, BodyNone}}

InitRank ==
    \E n \in 1..MaxRankRows :
        AtLoop(<<"t", "h", "e", " ", "x", " ", "y">>, "nothing", n)

RankLoop ==
    /\ pc = "loop"
    /\ rows_left > 0
    /\ \E it \in RankItems : Visit(it) /\ UNCHANGED processed

NextRank == RankLoop \/ Decide

SpecRank == InitRank /\ [][NextRank]_vars

(***************************************************************************)
(* The aggregation loop and the decision, on every response of up to       *)
(* MaxRows rows drawn from AggItems.                                       *)
(***************************************************************************)
InitAgg ==
    \E q \in Queries, hit \in {"nothing", "hit"}, n \in 1..MaxRows : AtLoop(q, hit, n)

AggLoop ==
    /\ pc = "loop"
    /\ rows_left > 0
    /\ \E it \in AggItems(Len(processed) + 1) :
        /\ Visit(it)
        /\ processed' = Append(processed, Outcome(it))

NextAgg == AggLoop \/ Decide

SpecAgg == InitAgg /\ [][NextAgg]_vars

(***************************************************************************)
(* Properties of extract_keywords (checked under SpecKw).                  *)
(***************************************************************************)
PunctOnly(w) == \A k \in 1..Len(w) : w[k] \in StripSet
StopToken(w) == Lower(w) \in stop_words

\* every whitespace-separated token is a stop word or made of ? , . ! only
OnlyStopOrPunct(text) ==
    \A k \in 1..Len(Split(text)) :
        StopToken(Split(text)[k]) \/ PunctOnly(Split(text)[k])

\* C6: once extract_keywords has run, an input whose tokens are all stop
\* words or punctuation-only tokens comes back unchanged, and an input with
\* at least one token never comes back as the empty string.
C6_StopOnlyUnchanged ==
    pc = "context" =>
        /\ OnlyStopOrPunct(raw_query) => base_keywords = raw_query
        /\ Split(raw_query) # <<>> => base_keywords # <<>>

(***************************************************************************)
(* Properties of the scoring of one record (checked under SpecScore).      *)
(***************************************************************************)
\* the candidate windows of a body: the body itself, or every run of three
\* consecutive sentences
Starts(body) == 0..(Len(split_sentences(body)) - WindowSize)

WindowText(body, i) ==
    IF Len(split_sentences(body)) <= WindowSize THEN body
    ELSE Window(split_sentences(body), i)

\* how many keyword terms occur in the context of window i of row it
Matches(it, i) ==
    LET context == Lower(DebateTitle(it) \o Space \o WindowText(it.body, i)
                         \o Space \o extra_context_title)
        terms == user_terms(base_keywords)
    IN  Cardinality({k \in 1..Len(terms) : Contains(terms[k], context)})

CandidateStarts(it) ==
    IF Len(split_sentences(it.body)) <= WindowSize THEN {0} ELSE Starts(it.body)

\* the earliest start among the windows of maximal score
BestStart(it) ==
    CHOOSE i \in CandidateStarts(it) :
        /\ \A j \in CandidateStarts(it) : Matches(it, j) <= Matches(it, i)
        /\ \A j \in CandidateStarts(it) : j < i => Matches(it, j) < Matches(it, i)

\* the snippet of the window that starts at i
WindowSnippet(it, i) ==
    IF Len(split_sentences(it.body)) <= WindowSize THEN it.body
    ELSE WindowText(it.body, i) \o Ellipsis

NumTerms == Len(user_terms(base_keywords))

\* the rows visited so far that resolved a speaker name
Counted == {j \in 1..Len(processed) : processed[j].tier \in {"Strict", "Loose"}}

\* C7: a record is classified Strict only when there is at least one keyword
\* term (an empty or whitespace-only keyword string scores 0 everywhere) and
\* every term occurs in the context of one of its windows.
C7_NoTermsNoStrict ==
    \A j \in Counted :
        processed[j].tier = "Strict" =>
            /\ NumTerms >= 1
            /\ \E i \in CandidateStarts(processed[j].item) :
                   Matches(processed[j].item, i) = NumTerms

\* C10 as stated: the snippet kept for a record is the whole body when it has
\* at most three sentences, and otherwise the maximum-scoring window of three
\* sentences, earliest start first, followed by "...".
C10_MaxWindowReturned ==
    \A j \in Counted :
        LET it == processed[j].item
        IN  (Len(processed) = 1 /\ Has(debate_info, SpeakerName(it))) =>
                Get(debate_info, SpeakerName(it)).snippet
                    = WindowSnippet(it, BestStart(it))

\* C10 amended: a window is returned only when some window holds every
\* keyword term; it is then the maximum-scoring window, earliest start first
\* (the whole body without suffix when the body has at most three sentences,
\* else three sentences followed by "..."); when no window holds every term
\* no window is returned and the snippet is the first 200 characters of the
\* body followed by "...".
C10_FirstFullWindow ==
    (pc = "loop" /\ Len(processed) = 1 /\ Counted # {}) =>
        LET it == processed[1].item
            full == \E i \in CandidateStarts(it) : Matches(it, i) = NumTerms
            snippet == Get(debate_info, SpeakerName(it)).snippet
        IN  /\ found_strict = full
            /\ full => /\ best_snippet = WindowSnippet(it, BestStart(it))
                       /\ snippet = best_snippet
                       /\ Matches(it, BestStart(it)) = NumTerms
            /\ ~full => /\ best_snippet = <<>>
                        /\ snippet = Prefix(it.body, SnippetPrefixLen) \o Ellipsis

\* a body of more than three sentences with two windows holding every term
C10_Witness ==
    /\ pc = "loop" /\ Len(processed) = 1 /\ Counted # {}
    /\ found_strict
    /\ NumTerms >= 1
    /\ Len(split_sentences(processed[1].item.body)) > WindowSize
    /\ \E i, j \in CandidateStarts(processed[1].item) :
           /\ i < j
           /\ Matches(processed[1].item, i) = NumTerms
           /\ Matches(processed[1].item, j) = NumTerms
    /\ best_snippet = WindowSnippet(processed[1].item, BestStart(processed[1].item))

(***************************************************************************)
(* Properties of the aggregation loop and the decision (checked under      *)
(* SpecAgg).                                                               *)
(***************************************************************************)
NameAt(j) == SpeakerName(processed[j].item)

CountOf(d, name) == IF Has(d, name) THEN Get(d, name) ELSE 0

Keys(d) == {d[j].k : j \in 1..Len(d)}

\* the tier the specification's score gives a row: the best fraction of
\* keyword terms over its windows, 0 when there is no term
FractionTier(it) ==
    LET best == Matches(it, BestStart(it))
    IN  IF NumTerms > 0 /\ best = NumTerms THEN "Strict"
        ELSE IF NumTerms > 0 /\ 2 * best >= NumTerms THEN "Fuzzy"
        ELSE "Loose"

\* some window of the row holds every keyword term
EveryTermInSomeWindow(it) ==
    \E i \in CandidateStarts(it) :
        \A k \in 1..NumTerms :
            Contains(user_terms(base_keywords)[k],
                     Lower(DebateTitle(it) \o Space \o WindowText(it.body, i)
                           \o Space \o extra_context_title))

\* how many visited rows of a speaker got a tier
TierCount(name, tier) ==
    Cardinality({j \in Counted : NameAt(j) = name /\ processed[j].tier = tier})

\* how many visited rows of a speaker have a tier by the fraction score
FractionCount(name, tier) ==
    Cardinality({j \in Counted :
                    NameAt(j) = name /\ FractionTier(processed[j].item) = tier})

CountedNames == {NameAt(j) : j \in Counted}

\* C1 as stated: every record with a resolved name gets the tier of its
\* fraction score, 1.0 Strict, [0.5, 1.0) Fuzzy, lower Loose, and that
\* speaker's counter of that tier goes up by one.  The fraction needs a
\* keyword term to be defined, so the statement is read where there is one.
C1_ThreeTiers ==
    NumTerms > 0 =>
        /\ \A j \in Counted : processed[j].tier = FractionTier(processed[j].item)
        /\ \A name \in CountedNames :
               /\ CountOf(strict_counts, name) = FractionCount(name, "Strict")
               /\ CountOf(loose_counts, name) = FractionCount(name, "Loose")

\* C1 amended: every record with a resolved name is classified into exactly
\* one of two tiers, Strict when some scored window's context holds every
\* keyword term and Loose otherwise (a score in [0.5, 1.0) included), and
\* exactly that speaker's counter of that tier goes up by one.
C1_TwoTiers ==
    /\ \A j \in Counted :
           processed[j].tier =
               IF EveryTermInSomeWindow(processed[j].item) THEN "Strict" ELSE "Loose"
    /\ Keys(strict_counts) \cup Keys(loose_counts) = CountedNames
    /\ \A name \in CountedNames :
           /\ CountOf(strict_counts, name)
                = Cardinality({j \in Counted :
                     NameAt(j) = name /\ EveryTermInSomeWindow(processed[j].item)})
           /\ CountOf(loose_counts, name)
                = Cardinality({j \in Counted :
                     NameAt(j) = name /\ ~EveryTermInSomeWindow(processed[j].item)})

\* a record of fraction score in [0.5, 1.0) was counted Loose, another Strict
C1_Witness ==
    /\ \E j \in Counted :
           /\ FractionTier(processed[j].item) = "Fuzzy"
           /\ processed[j].tier = "Loose"
           /\ CountOf(loose_counts, NameAt(j)) = 1
           /\ CountOf(strict_counts, NameAt(j)) = 1
    /\ \E j \in Counted : processed[j].tier = "Strict" /\ NumTerms > 0

\* every row of the response has been visited and none raised
AllRowsProcessed == rows_left = 0 /\ pc # "loop" /\ result.kind # "error"

\* the (speaker, count) pairs on display are counts of the given tier
ShowsCountsOf(tier) ==
    \A j \in 1..Len(sorted_speakers) :
        sorted_speakers[j].v = TierCount(sorted_speakers[j].k, tier)

ShowsFractionCountsOf(tier) ==
    \A j \in 1..Len(sorted_speakers) :
        sorted_speakers[j].v = FractionCount(sorted_speakers[j].k, tier)

\* C2 as stated: the displayed tier is the first of Strict, Fuzzy, Loose that
\* has a speaker, with that tier's counts, else the "no matches" message
\* (read where the fraction score is defined: with a keyword term).
C2_ThreeTierDisplay ==
    (AllRowsProcessed /\ NumTerms > 0) =>
        IF \E n \in CountedNames : FractionCount(n, "Strict") > 0
        THEN result_type = "Strict" /\ ShowsFractionCountsOf("Strict")
        ELSE IF \E n \in CountedNames : FractionCount(n, "Fuzzy") > 0
        THEN result_type = "Fuzzy" /\ ShowsFractionCountsOf("Fuzzy")
        ELSE IF \E n \in CountedNames : FractionCount(n, "Loose") > 0
        THEN result_type = "Loose" /\ ShowsFractionCountsOf("Loose")
        ELSE result.kind = "no_matches"

\* C2 amended: the displayed tier is Strict if a speaker has a Strict count,
\* else Loose if a speaker has a Loose count, else the result is the "no
\* matches" message; the counts shown are those of the selected tier only.
C2_TwoTierDisplay ==
    AllRowsProcessed =>
        IF \E n \in CountedNames : TierCount(n, "Strict") > 0
        THEN /\ result_type = "Strict"
             /\ sorted_speakers # <<>>
             /\ ShowsCountsOf("Strict")
        ELSE IF \E n \in CountedNames : TierCount(n, "Loose") > 0
        THEN /\ result_type = "Loose"
             /\ sorted_speakers # <<>>
             /\ ShowsCountsOf("Loose")
        ELSE /\ result.kind = "no_matches"
             /\ sorted_speakers = <<>>

\* a speaker with two Strict records and one Loose record is shown under
\* Strict with count 2
C2_Witness ==
    /\ AllRowsProcessed
    /\ result_type = "Strict"
    /\ \E j \in 1..Len(sorted_speakers) :
           /\ sorted_speakers[j].v = 2
           /\ TierCount(sorted_speakers[j].k, "Strict") = 2
           /\ TierCount(sorted_speakers[j].k, "Loose") = 1

\* the visited row changed nothing the aggregation keeps
NoAggregateChange == UNCHANGED <<strict_counts, loose_counts, debate_info>>

\* a row with no usable speaker: absent, not a structure, or an empty or
\* placeholder name
Nameless(it) ==
    \/ it.speaker_tag # "dict"
    \/ StripWs(it.first_name \o Space \o it.last_name) \in {<<>>, UnknownMP}

\* how many visited rows resolved to the name
ResolvedTo(name) ==
    Cardinality({j \in 1..Len(processed) :
                    /\ processed[j].item.kind = "row"
                    /\ ~Nameless(processed[j].item)
                    /\ SpeakerName(processed[j].item) = name})

AllNames ==
    {SpeakerName(processed[j].item) : j \in 1..Len(processed)}
        \cup Keys(strict_counts) \cup Keys(loose_counts) \cup Keys(debate_info)

\* C4: after every step of the loop, each speaker's counts summed over the
\* tiers equal the number of visited rows that resolved to the name, and a
\* row without a usable speaker changes no counter and no stored payload.
C4_CountsMatchRecords ==
    [][ /\ \A name \in AllNames' :
               CountOf(strict_counts', name) + CountOf(loose_counts', name)
                   = IF name \in {<<>>, UnknownMP} THEN 0 ELSE ResolvedTo(name)'
        /\ (Len(processed') = Len(processed) + 1
              /\ processed'[Len(processed')].item.kind = "row"
              /\ Nameless(processed'[Len(processed')].item))
           => NoAggregateChange ]_vars

\* a row with the placeholder name was visited between two rows of a speaker
\* who has a count in each tier
C4_Witness ==
    /\ Len(processed) = 3
    /\ SpeakerName(processed[2].item) = UnknownMP
    /\ processed[2].item.speaker_tag = "dict"
    /\ \E n \in CountedNames :
           CountOf(strict_counts, n) = 1 /\ CountOf(loose_counts, n) = 1

Rank(tier) == IF tier = "Strict" THEN 3 ELSE IF tier = "Fuzzy" THEN 2 ELSE 1

\* the visited rows of a speaker
RowsOf(name) == {j \in Counted : NameAt(j) = name}

\* the first row of a speaker among those of its best tier, tiers given by T
FirstAtBest(name, T(_)) ==
    CHOOSE j \in RowsOf(name) :
        /\ \A m \in RowsOf(name) : Rank(T(m)) <= Rank(T(j))
        /\ \A m \in RowsOf(name) : m < j => Rank(T(m)) < Rank(T(j))

FractionTierAt(j) == FractionTier(processed[j].item)
TierAt(j) == processed[j].tier

\* C5 as stated: the stored payload of each counted speaker has the best tier
\* of Strict > Fuzzy > Loose among the speaker's records so far and comes from
\* the first record of the speaker at that tier (read where the fraction
\* score is defined: with a keyword term).
C5_BestOfThreeTiers ==
    \A name \in CountedNames :
        LET j == FirstAtBest(name, FractionTierAt)
        IN  NumTerms > 0 =>
            /\ Has(debate_info, name)
            /\ Get(debate_info, name).type = FractionTierAt(j)
            /\ Get(debate_info, name).link = <<TwfyHost, processed[j].item.listurl>>

\* C5 amended: the stored payload of each counted speaker has the best tier
\* of Strict > Loose, the two tiers the loop assigns, among the speaker's
\* records so far and comes from the first record of the speaker at that
\* tier; it is replaced only by a record whose tier strictly outranks the
\* stored one.
C5_BestOfTwoTiers ==
    /\ Keys(debate_info) = CountedNames
    /\ \A name \in CountedNames :
        LET j == FirstAtBest(name, TierAt)
        IN  /\ Get(debate_info, name).type = TierAt(j)
            /\ Get(debate_info, name).link = <<TwfyHost, processed[j].item.listurl>>
            /\ Get(debate_info, name).title = DebateTitle(processed[j].item)

\* a speaker's Loose payload was upgraded by a Strict record and then kept
\* when a second Strict record came
C5_Witness ==
    \E name \in CountedNames :
        \E a, b, c \in RowsOf(name) :
            /\ a < b /\ b < c
            /\ TierAt(a) = "Loose" /\ TierAt(b) = "Strict" /\ TierAt(c) = "Strict"
            /\ Get(debate_info, name).link = <<TwfyHost, processed[b].item.listurl>>

(***************************************************************************)
(* Properties of the ranking (checked under SpecRank).                     *)
(***************************************************************************)
\* the dict the ranked list is drawn from
Shown == IF result_type = "Strict" THEN strict_counts ELSE loose_counts

Min(a, b) == IF a < b THEN a ELSE b

\* at most five entries, exactly five from six speakers on, each entry a
\* speaker of the selected tier with its count, no speaker twice, counts
\* descending, and nobody left out who has a higher count than an entry
RankedShape ==
    /\ Len(sorted_speakers) = Min(TopN, Len(Shown))
    /\ \A j \in 1..Len(sorted_speakers) :
           /\ Has(Shown, sorted_speakers[j].k)
           /\ sorted_speakers[j].v = Get(Shown, sorted_speakers[j].k)
    /\ \A i, j \in 1..Len(sorted_speakers) :
           i < j => /\ sorted_speakers[i].k # sorted_speakers[j].k
                    /\ sorted_speakers[i].v >= sorted_speakers[j].v
    /\ \A m \in 1..Len(Shown) :
           (\A j \in 1..Len(sorted_speakers) : sorted_speakers[j].k # Shown[m].k)
               => \A j \in 1..Len(sorted_speakers) : sorted_speakers[j].v >= Shown[m].v

\* speakers of equal count stand in the order of their places in dict d, and
\* a speaker left out stands in d behind every entry of the same count
TiesFollow(d) ==
    /\ \A i, j \in 1..Len(sorted_speakers) :
           (i < j /\ sorted_speakers[i].v = sorted_speakers[j].v)
               => Pos(d, sorted_speakers[i].k) < Pos(d, sorted_speakers[j].k)
    /\ \A m \in 1..Len(Shown) :
           (\A j \in 1..Len(sorted_speakers) : sorted_speakers[j].k # Shown[m].k)
               => \A j \in 1..Len(sorted_speakers) :
                      sorted_speakers[j].v = Shown[m].v
                          => Pos(d, sorted_speakers[j].k) < Pos(d, Shown[m].k)

\* C3 as stated: the ranked list has at most 5 entries (exactly 5 from 6
\* speakers on), is sorted by count descending, and speakers of equal count
\* stand in the order in which they were first met in the response
\* (debate_info gets a speaker's key at the speaker's first counted row).
C3_TiesByFirstEncounter ==
    pc = "summary" => RankedShape /\ TiesFollow(debate_info)

\* C3 amended: the ranked list has at most 5 entries (exactly 5 from 6
\* speakers on), is sorted by count descending, and speakers of equal count
\* stand in the order in which they first had a record of the selected tier.
C3_TiesByTierInsertion ==
    pc = "summary" => RankedShape /\ TiesFollow(Shown)

\* seven rows, six speakers in the selected tier, the sixth with two records:
\* five are listed, the sixth first, and one speaker is dropped
C3_Witness ==
    /\ pc = "summary"
    /\ Len(Shown) = 6
    /\ Len(sorted_speakers) = TopN
    /\ sorted_speakers[1].k = Shown[6].k
    /\ sorted_speakers[1].v = 2
    /\ sorted_speakers[2].v = 1
    /\ sorted_speakers[TopN].k = Shown[4].k

(***************************************************************************)
(* Properties of the whole query (checked under Spec).                     *)
(***************************************************************************)
\* C8: with the search credential missing, no outbound call is ever made and
\* the query ends with a configuration-error message.
C8_NoCallWithoutKey ==
    TWFY_API_KEY = None =>
        /\ netcalls = <<>>
        /\ pc = "done" => result.kind = "config_error"

Enrichment == {"ddg.text", "ddg.chat"}

\* C9: no exception leaves search_theyworkforyou; a value is returned exactly
\* when the query has ended and it is one of the messages; a failed
\* web-context or AI-summary call contributes the empty string and does not
\* by itself turn the result into the error message, while every other
\* failure ends in the error message.
C9_AlwaysOneMessage ==
    /\ ~raised
    /\ (pc = "done") = (result # NoResult)
    /\ result.kind \in {"none", "no_mentions", "no_matches", "ranked", "error"}
    /\ ("ddg.text" \in failures) => (web_context_msg = <<>> /\ extra_context_title = <<>>)
    /\ ("ddg.chat" \in failures) => ai_summary = <<>>
    /\ (pc = "done" /\ failures \subseteq Enrichment) => result.kind # "error"
    /\ (failures \ Enrichment # {}) => (pc = "done" /\ result.kind = "error")

\* both enrichment calls failed and the query still returned its ranking
C9_Witness ==
    /\ pc = "done"
    /\ failures = Enrichment
    /\ result.kind = "ranked"
    /\ result.preamble = <<>>

====
